---- MODULE Spec2Model ----
(***************************************************************************)
(* ProtocolData<SensorType> (modules/drivers/canbus/can_comm/              *)
(* protocol_data.h): the base class of CAN protocol data, with its two     *)
(* static helpers CalculateCheckSum and BoundedValue.                      *)
(*                                                                         *)
(* One ProtocolData instance is driven by a caller that owns a byte        *)
(* buffer (data) and an output record (sensor_data) and calls the public   *)
(* methods in any order with any arguments.                                *)
(***************************************************************************)
EXTENDS Integers, Sequences, FiniteSets, TLC

VARIABLES
    data_length_,   \* the instance's only field (const int32_t)
    decoder,        \* dynamic type of the instance: "base" or "derived"
    sensor_data,    \* the caller-owned output record (SensorType)
    data,           \* the caller-owned byte buffer (uint8_t[])
    call,           \* the last call made on the instance, with its return value
    pure            \* the last call of a static helper, with its arguments and return value

vars == <<data_length_, decoder, sensor_data, data, call, pure>>

----------------------------------------------------------------------------
(* Bounds of the model *)

\* longest caller-owned byte buffer
MaxLen == 2

\* the numeric arguments of BoundedValue range over -MaxVal..MaxVal (and NaN)
MaxVal == 2

----------------------------------------------------------------------------
(* Values *)

\* canbus_consts.h: const int32_t CANBUS_MESSAGE_LENGTH = 8
CANBUS_MESSAGE_LENGTH == 8

\* uint8_t arithmetic is modulo 2^8
UINT8 == 2 ^ 8

\* byte contents of the buffers handed to CalculateCheckSum: small values,
\* both sides of the sign bit, and values that make the sum wrap
ByteVals == {0, 1, 2, 127, 128, UINT8 - 2, UINT8 - 1}

\* byte contents of the frames handed to the instance
FrameVals == {0, UINT8 - 1}

BuffersOf(vals) == UNION {[1..n -> vals] : n \in 0..MaxLen}

\* the int32_t length argument of Parse: negative, zero, shorter than, equal to
\* and longer than GetLength()
LengthArgs == {-1, 0, 1, CANBUS_MESSAGE_LENGTH, CANBUS_MESSAGE_LENGTH + 1}

\* struct timeval values
Timestamps == {0, 1}

\* initial contents of the output record
SensorInit == {0, 1}

\* a value of the arithmetic type T of BoundedValue: a number, or (T floating
\* point) NaN, which every ordered comparison treats as unordered
Num(i) == [nan |-> FALSE, v |-> i]
NaN == [nan |-> TRUE, v |-> 0]
T == {Num(i) : i \in -MaxVal..MaxVal} \cup {NaN}

\* the arguments of BoundedValue when its calls are interleaved with the
\* instance's methods
ClampArgs == {Num(0), Num(1), NaN}

\* operator< and operator> of T
Less(a, b) == ~a.nan /\ ~b.nan /\ a.v < b.v
Greater(a, b) == ~a.nan /\ ~b.nan /\ a.v > b.v

----------------------------------------------------------------------------
(* The static helpers *)

BoundedValue_Swapping(lower, upper, val) ==
    IF Greater(lower, upper)
    THEN IF Less(val, upper) THEN upper
         ELSE IF Greater(val, lower) THEN lower ELSE val
    ELSE IF Less(val, lower) THEN lower
    ELSE IF Greater(val, upper) THEN upper
    ELSE val

BoundedValue(lower, upper, val) ==
    IF Greater(lower, upper) THEN val
    ELSE IF Less(val, lower) THEN lower
    ELSE IF Greater(val, upper) THEN upper
    ELSE val

\* bitwise exclusive or of the low `bits` bits of a and b
RECURSIVE BitXor(_, _, _)
BitXor(a, b, bits) ==
    IF bits = 0 THEN 0
    ELSE (((a % 2) + (b % 2)) % 2) + 2 * BitXor(a \div 2, b \div 2, bits - 1)

\* the for loop of CalculateCheckSum: i is the loop index (0-based), sum the
\* uint8_t accumulator
RECURSIVE SumLoop(_, _, _, _)
SumLoop(input, length, i, sum) ==
    IF i < length
    THEN SumLoop(input, length, i + 1, (sum + input[i + 1]) % UINT8)
    ELSE sum

CalculateCheckSum_SkipFirst(input, length) ==
    BitXor(SumLoop(input, length, 1, 0), 255, 8)

CalculateCheckSum_NoComplement(input, length) ==
    SumLoop(input, length, 0, 0)

\* a static accumulator: the sum carries over from the previous call
CalculateCheckSum_Static(input, length) ==
    BitXor(SumLoop(input, length, 0, pure.checksum), 255, 8)

CalculateCheckSum(input, length) ==
    BitXor(SumLoop(input, length, 0, 0), 255, 8)

----------------------------------------------------------------------------
(* The virtual methods, as functions of what they may touch *)

CONST_PERIOD == 100 * 1000

\* the period in milliseconds instead of microseconds
GetPeriod_Millis == CONST_PERIOD \div 1000

GetPeriod == CONST_PERIOD

GetLength == data_length_

Parse_Clearing(bytes, length, sd) == 0

\* the default Parse(bytes, length, sensor_data): the record afterwards
Parse(bytes, length, sd) == sd

\* a concrete decoder's override of Parse(bytes, length, sensor_data): it
\* stores the first payload byte in the record
ConcreteParse(bytes, length, sd) ==
    IF length >= 1 /\ Len(bytes) >= 1 THEN bytes[1] ELSE sd

\* the virtual call Parse(bytes, length, sensor_data) on this instance
VirtualParse(bytes, length, sd) ==
    IF decoder = "derived" THEN ConcreteParse(bytes, length, sd)
    ELSE Parse(bytes, length, sd)

ParseTimestamp_NonVirtual(bytes, length, timestamp, sd) ==
    Parse(bytes, length, sd)

\* the default Parse(bytes, length, timestamp, sensor_data)
ParseTimestamp(bytes, length, timestamp, sd) ==
    VirtualParse(bytes, length, sd)

UpdateData_Zeroing(d) == [i \in 1..Len(d) |-> 0]

\* the default UpdateData(data): the buffer afterwards
UpdateData(d) == d

Reset_Zeroing(dl) == 0

\* the default Reset(): the instance's field afterwards
Reset(dl) == dl

----------------------------------------------------------------------------
(* The state machine *)

NoCall == [op |-> "none", length |-> 0, timestamp |-> 0, ret |-> 0]
NoPure == [op |-> "none", input |-> <<>>, length |-> 0,
           checksum |-> 0,
           lower |-> Num(0), upper |-> Num(0), val |-> Num(0), ret |-> Num(0)]

\* ProtocolData() = default, then the caller's buffer and record
Construct(buffers) ==
    /\ data_length_ = CANBUS_MESSAGE_LENGTH
    /\ decoder \in {"base", "derived"}
    /\ sensor_data \in SensorInit
    /\ data \in buffers
    /\ call = NoCall
    /\ pure = NoPure

Init == Construct(BuffersOf(FrameVals))

DoGetPeriod ==
    /\ call' = [NoCall EXCEPT !.op = "GetPeriod", !.ret = GetPeriod]
    /\ UNCHANGED <<data_length_, decoder, sensor_data, data, pure>>

DoGetLength ==
    /\ call' = [NoCall EXCEPT !.op = "GetLength", !.ret = GetLength]
    /\ UNCHANGED <<data_length_, decoder, sensor_data, data, pure>>

DoParse(length) ==
    /\ sensor_data' = VirtualParse(data, length, sensor_data)
    /\ call' = [NoCall EXCEPT !.op = "Parse", !.length = length]
    /\ UNCHANGED <<data_length_, decoder, data, pure>>

DoParseTimestamp(length, timestamp) ==
    /\ sensor_data' = ParseTimestamp(data, length, timestamp, sensor_data)
    /\ call' = [NoCall EXCEPT !.op = "ParseTimestamp", !.length = length,
                              !.timestamp = timestamp]
    /\ UNCHANGED <<data_length_, decoder, data, pure>>

DoUpdateData ==
    /\ data' = UpdateData(data)
    /\ call' = [NoCall EXCEPT !.op = "UpdateData"]
    /\ UNCHANGED <<data_length_, decoder, sensor_data, pure>>

DoReset ==
    /\ data_length_' = Reset(data_length_)
    /\ call' = [NoCall EXCEPT !.op = "Reset"]
    /\ UNCHANGED <<decoder, sensor_data, data, pure>>

\* the static CalculateCheckSum(data, length), length no more than the buffer
\* holds; a static helper is not a call on the instance
DoCalculateCheckSum(length) ==
    /\ pure' = [NoPure EXCEPT !.op = "CalculateCheckSum", !.input = data,
                              !.length = length,
                              !.checksum = CalculateCheckSum(data, length)]
    /\ UNCHANGED <<data_length_, decoder, sensor_data, data, call>>

\* the static BoundedValue(lower, upper, val)
DoBoundedValue(lower, upper, val) ==
    /\ pure' = [NoPure EXCEPT !.op = "BoundedValue", !.lower = lower,
                              !.upper = upper, !.val = val,
                              !.ret = BoundedValue(lower, upper, val)]
    /\ UNCHANGED <<data_length_, decoder, sensor_data, data, call>>

Next ==
    \/ DoGetPeriod
    \/ DoGetLength
    \/ \E length \in LengthArgs : DoParse(length)
    \/ \E length \in LengthArgs, timestamp \in Timestamps :
           DoParseTimestamp(length, timestamp)
    \/ DoUpdateData
    \/ DoReset
    \/ \E length \in 0..Len(data) : DoCalculateCheckSum(length)
    \/ \E lower \in ClampArgs, upper \in ClampArgs, val \in ClampArgs :
           DoBoundedValue(lower, upper, val)

\* one instance and its caller: every method and helper, in any order
Spec == Init /\ [][Next]_vars

\* CalculateCheckSum over every prefix of every buffer
InitCk == Construct(BuffersOf(ByteVals)) /\ decoder = "base" /\ sensor_data = 0

NextCk == \E length \in 0..Len(data) : DoCalculateCheckSum(length)

SpecCk == InitCk /\ [][NextCk]_vars

\* BoundedValue over every triple of T
InitBV == Construct({<<>>}) /\ decoder = "base" /\ sensor_data = 0

NextBV == \E lower \in T, upper \in T, val \in T : DoBoundedValue(lower, upper, val)

SpecBV == InitBV /\ [][NextBV]_vars

----------------------------------------------------------------------------
(* Properties *)

\* the arithmetic sum of a byte sequence, not reduced
RECURSIVE SeqSum(_)
SeqSum(s) == IF s = <<>> THEN 0 ELSE Head(s) + SeqSum(Tail(s))

\* a <= b in T
LessEq(a, b) == ~a.nan /\ ~b.nan /\ a.v <= b.v

\* the bytes input[0..length) a checksum call read
Payload == SubSeq(pure.input, 1, pure.length)

\* C1: CalculateCheckSum(b, n) is (sum of b[0..n) mod 256) XOR 0xFF; it is 0xFF
\* for n = 0 and 0xFC for b = [0x01, 0x02].
C1_CheckSumIsComplementedSum ==
    pure.op = "CalculateCheckSum" =>
        /\ pure.checksum = BitXor(SeqSum(Payload) % 256, 255, 8)
        /\ pure.checksum \in 0..255
        /\ (pure.length = 0 => pure.checksum = 255)
        /\ (Payload = <<1, 2>> => pure.checksum = 252)

\* a checksum was taken of two bytes whose sum wraps the 8-bit accumulator
C1_Witness ==
    /\ pure.op = "CalculateCheckSum"
    /\ Payload = <<255, 2>>
    /\ pure.checksum = 254

\* C2: for lower <= upper, BoundedValue(lower, upper, value) lies in
\* [lower, upper]: it is lower for value < lower, upper for value > upper and
\* value itself for lower <= value <= upper.
C2_BoundedValueInRange ==
    (pure.op = "BoundedValue" /\ LessEq(pure.lower, pure.upper)) =>
        /\ LessEq(pure.lower, pure.ret) /\ LessEq(pure.ret, pure.upper)
        /\ (Less(pure.val, pure.lower) => pure.ret = pure.lower)
        /\ (Greater(pure.val, pure.upper) => pure.ret = pure.upper)
        /\ (LessEq(pure.lower, pure.val) /\ LessEq(pure.val, pure.upper)
               => pure.ret = pure.val)

\* what BoundedValue does keep for lower <= upper: a value that is not NaN
\* comes back inside [lower, upper]
BoundedValueOrderedInRange ==
    (pure.op = "BoundedValue" /\ LessEq(pure.lower, pure.upper) /\ ~pure.val.nan) =>
        /\ LessEq(pure.lower, pure.ret) /\ LessEq(pure.ret, pure.upper)
        /\ (Less(pure.val, pure.lower) => pure.ret = pure.lower)
        /\ (Greater(pure.val, pure.upper) => pure.ret = pure.upper)
        /\ (LessEq(pure.lower, pure.val) /\ LessEq(pure.val, pure.upper)
               => pure.ret = pure.val)

\* C3: whenever lower > upper, BoundedValue(lower, upper, value) returns value
\* unchanged, also when value lies outside both bounds.
C3_MalformedBoundsPassThrough ==
    (pure.op = "BoundedValue" /\ Greater(pure.lower, pure.upper)) =>
        pure.ret = pure.val

\* BoundedValue was called with lower > upper and a value below both
C3_Witness ==
    /\ pure.op = "BoundedValue"
    /\ pure.lower = Num(1) /\ pure.upper = Num(0) /\ pure.val = Num(-1)
    /\ pure.ret = Num(-1)

\* C4: on an unspecialized instance GetPeriod() returns 100000 and GetLength()
\* returns 8, in every reachable state.
C4_DefaultPeriodAndLength ==
    decoder = "base" =>
        /\ GetPeriod = 100000
        /\ GetLength = 8
        /\ (call.op = "GetPeriod" => call.ret = 100000)
        /\ (call.op = "GetLength" => call.ret = 8)

\* GetPeriod() was called on the base instance after a helper had been used
C4_Witness ==
    /\ decoder = "base"
    /\ call.op = "GetPeriod" /\ call.ret = 100000
    /\ pure.op = "BoundedValue"

\* C5: the default Parse (both overloads), UpdateData and Reset leave the output
\* record as it was and can always be called, for every length (negative, zero,
\* shorter and longer than GetLength()) and every byte content.
C5_DefaultsLeaveRecord ==
    /\ [](decoder = "base" =>
            /\ \A length \in LengthArgs : ENABLED DoParse(length)
            /\ \A length \in LengthArgs, timestamp \in Timestamps :
                   ENABLED DoParseTimestamp(length, timestamp)
            /\ ENABLED DoUpdateData
            /\ ENABLED DoReset)
    /\ [][(/\ decoder = "base"
           /\ \/ DoParse(call'.length)
              \/ DoParseTimestamp(call'.length, call'.timestamp)
              \/ DoUpdateData
              \/ DoReset)
          => sensor_data' = sensor_data]_vars

\* the default Parse ran with a negative length over a two-byte frame and the
\* record still holds its initial content
C5_Witness ==
    /\ decoder = "base"
    /\ call.op = "Parse" /\ call.length = -1
    /\ Len(data) = 2 /\ data[1] = 255
    /\ sensor_data = 1

\* C6: when the timestamp overload is not overridden, Parse(bytes, length,
\* timestamp, output) leaves the record as Parse(bytes, length, output) would
\* from the same record, whatever the timestamp.
C6_TimestampOverloadDelegates ==
    [][DoParseTimestamp(call'.length, call'.timestamp) =>
           /\ sensor_data' = VirtualParse(data, call'.length, sensor_data)
           /\ \A other \in Timestamps :
                  ParseTimestamp(data, call'.length, other, sensor_data) = sensor_data'
      ]_vars

\* a decoder that overrides only the plain Parse was called through the
\* timestamp overload and filled the record from the frame
C6_Witness ==
    /\ decoder = "derived"
    /\ call.op = "ParseTimestamp" /\ call.length = 1 /\ call.timestamp = 1
    /\ data = <<255>>
    /\ sensor_data = 255

\* C7: data_length is never mutated: after any sequence of calls GetLength()
\* returns what it returned right after construction.
C7_DataLengthFixed ==
    [][data_length_' = data_length_ /\ GetLength' = GetLength]_vars

\* Reset() ran after a helper call and GetLength() is still the constructed one
C7_Witness ==
    /\ call.op = "Reset"
    /\ pure.op = "CalculateCheckSum"
    /\ GetLength = CANBUS_MESSAGE_LENGTH

\* the arguments of the last helper call
PureArgs == <<pure.op, pure.input, pure.length, pure.lower, pure.upper, pure.val>>

C9_UpdateDataLeavesBuffer ==
    [][(DoUpdateData \/ DoReset) => data' = data]_vars

\* UpdateData ran on a two-byte buffer that still holds its content
C9_Witness ==
    /\ call.op = "UpdateData"
    /\ data = <<255, 0>>

\* C10: with c = CalculateCheckSum(b, n) appended, the sum of b and c is 0xFF
\* mod 256 and the checksum of the n+1 bytes is 0; changing one payload byte to
\* another value changes CalculateCheckSum(b, n).
C10_AppendCompareRoundTrip ==
    pure.op = "CalculateCheckSum" =>
        LET b == Payload
            n == pure.length
            c == pure.checksum
        IN  /\ (SeqSum(b) + c) % 256 = 255
            /\ CalculateCheckSum(Append(b, c), n + 1) = 0
            /\ \A i \in 1..n : \A v \in (0..255) \ {b[i]} :
                   CalculateCheckSum([b EXCEPT ![i] = v], n) # c

\* a checksum was taken of the payload [0x01, 0x02]; 0xFC is its trailing byte
C10_Witness ==
    /\ pure.op = "CalculateCheckSum"
    /\ Payload = <<1, 2>>
    /\ CalculateCheckSum(<<1, 2, pure.checksum>>, 3) = 0

====
